---- MODULE Spec2Model ----
(***************************************************************************)
(* Verification model of the closed-form algebra core of tkofh/squiggles   *)
(* (packages/core): 4x4 matrices (matrix4x4.internal.ts), quadratic        *)
(* polynomials (quadratic.internal.ts), curves (curve.ts) and the spline   *)
(* chunking and characteristic matrices exercised by the spline tests.     *)
(*                                                                         *)
(* Every value of the library is immutable and every operation is a pure   *)
(* function, so the state of the model is the operands a caller holds      *)
(* (a matrix `m`, a polynomial `p`, a curve `curve`, a sequence of control *)
(* scalars `controls`) and the value returned by the last call (`res`).    *)
(* Numbers are exact rationals [n, d]; IEEE-754 error is outside the       *)
(* model, decimal rounding (round) is inside it.                           *)
(***************************************************************************)
EXTENDS Integers, Sequences, FiniteSets, TLC

VARIABLES m, p, curve, controls, res

vars == <<m, p, curve, controls, res>>

(***************************************************************************)
(* Bounds of the model.                                                    *)
(***************************************************************************)
\* matrix and vector entries range over 0..MaxEntry
MaxEntry == 1
\* polynomial coefficients range over -MaxCoef..MaxCoef
MaxCoef == 3
\* abscissae, ordinates and interval endpoints range over -MaxArg..MaxArg
MaxArg == 2
\* the precision of the polynomials built below the default precision
LowPrecision == 0
\* the coordinates of control points range over 0..MaxPoint
MaxPoint == 1
\* the normalize arguments range over the halves up to MaxNormalize / 2
MaxNormalize == 4
\* control scalars range over 0..MaxScalar
MaxScalar == 1
\* sequences of control scalars have at most MaxLen elements
MaxLen == 7
\* strides range over 0..MaxStride
MaxStride == 4
\* the tensions of cardinal range over the halves up to MaxTension / 2
MaxTension == 2

(***************************************************************************)
(* Program constants.                                                      *)
(***************************************************************************)
\* util: export const PRECISION = 12 (default precision, spec 4.1)
PRECISION == 12

(***************************************************************************)
(* Exact rational arithmetic: the model's `number`.                        *)
(***************************************************************************)
Abs(x) == IF x < 0 THEN -x ELSE x

Sign(x) == IF x < 0 THEN -1 ELSE IF x = 0 THEN 0 ELSE 1

RECURSIVE GCD(_, _)
GCD(a, b) == IF b = 0 THEN a ELSE GCD(b, a % b)

\* the rational n/d in lowest terms with a positive denominator (d # 0)
Rat(n, d) ==
  LET g == GCD(Abs(n), Abs(d))
  IN  [n |-> Sign(d) * (n \div g), d |-> Abs(d) \div g]

RInt(k) == [n |-> k, d |-> 1]

RAdd(a, b) == Rat(a.n * b.d + b.n * a.d, a.d * b.d)

RNeg(a) == [n |-> -a.n, d |-> a.d]

RSub(a, b) == RAdd(a, RNeg(b))

RMul(a, b) == Rat(a.n * b.n, a.d * b.d)

\* a / b for b # 0
RDiv(a, b) == Rat(a.n * b.d, a.d * b.n)

RLt(a, b) == a.n * b.d < b.n * a.d

RLe(a, b) == a.n * b.d <= b.n * a.d

RIsZero(a) == a.n = 0

RECURSIVE Pow10(_)
Pow10(k) == IF k = 0 THEN 1 ELSE 10 * Pow10(k - 1)

\* util.round(value, precision): decimal rounding, half away from zero, with
\* the fast path that returns the input unchanged at the maximum precision
round(value, precision) ==
  IF precision >= PRECISION
    THEN value
    ELSE LET scale == Pow10(precision)
             q == (2 * Abs(value.n) * scale + value.d) \div (2 * value.d)
         IN  Rat(Sign(value.n) * q, scale)

Min2(a, b) == IF a <= b THEN a ELSE b

(***************************************************************************)
(* Arrays: JavaScript arrays are sequences addressed from index 0.         *)
(***************************************************************************)
\* Array.prototype.with(index, value)
ArrayWith(arr, index, value) ==
  [k \in 1..Len(arr) |-> IF k = index + 1 THEN value ELSE arr[k]]

\* Array.prototype.toSpliced(index, 1)
ToSpliced1(arr, index) ==
  [k \in 1..(Len(arr) - 1) |-> IF k <= index THEN arr[k] ELSE arr[k + 1]]

(***************************************************************************)
(* Vectors and 3x3 matrices (vector4.internal.ts, matrix3x3.internal.ts).  *)
(* Matrix and vector entries are integers; the components of the vector    *)
(* returned by solveSystem are rationals.                                  *)
(***************************************************************************)
Coordinate == 0..3

\* util.round on an integer: Math.round(value * scale) / scale
roundInt(value, precision) ==
  IF precision >= PRECISION
    THEN value
    ELSE (value * Pow10(precision)) \div Pow10(precision)

\* vector4(v0, v1, v2, v3, precision): components rounded at construction
vector4(v0, v1, v2, v3, precision) ==
  [v |-> <<roundInt(v0, precision), roundInt(v1, precision),
           roundInt(v2, precision), roundInt(v3, precision)>>,
   precision |-> precision]

\* vector4 of rational components (the quotients computed by solveSystem)
vector4Q(v0, v1, v2, v3, precision) ==
  [v |-> <<round(v0, precision), round(v1, precision),
           round(v2, precision), round(v3, precision)>>,
   precision |-> precision]

\* components(v): the ordered sequence v0..v3
components(v) == v.v

\* matrix3x3.make(m00, ..., m22, precision): row-major entries
matrix3x3make(m00, m01, m02, m10, m11, m12, m20, m21, m22, precision) ==
  [e |-> << <<roundInt(m00, precision), roundInt(m01, precision), roundInt(m02, precision)>>,
            <<roundInt(m10, precision), roundInt(m11, precision), roundInt(m12, precision)>>,
            <<roundInt(m20, precision), roundInt(m21, precision), roundInt(m22, precision)>> >>,
   precision |-> precision]

\* matrix3x3.determinant(m)
matrix3x3determinant(a) ==
  roundInt(  a.e[1][1] * (a.e[2][2] * a.e[3][3] - a.e[2][3] * a.e[3][2])
           - a.e[1][2] * (a.e[2][1] * a.e[3][3] - a.e[2][3] * a.e[3][1])
           + a.e[1][3] * (a.e[2][1] * a.e[3][2] - a.e[2][2] * a.e[3][1]),
           a.precision)

(***************************************************************************)
(* matrix4x4.internal.ts                                                   *)
(***************************************************************************)
\* new Matrix4x4Impl(m00, ..., m33, precision): sixteen row-major entries,
\* each rounded to the precision
Matrix4x4Impl(rows, precision) ==
  [e |-> [i \in 1..4 |-> [j \in 1..4 |-> roundInt(rows[i][j], precision)]],
   precision |-> precision]

\* entry m<row><column> of a matrix
At(a, row, column) == a.e[row + 1][column + 1]

\* fromRows(v0, v1, v2, v3) without an explicit precision
fromRows(vs) ==
  Matrix4x4Impl(
    << <<vs[1].v[1], vs[1].v[2], vs[1].v[3], vs[1].v[4]>>,
       <<vs[2].v[1], vs[2].v[2], vs[2].v[3], vs[2].v[4]>>,
       <<vs[3].v[1], vs[3].v[2], vs[3].v[3], vs[3].v[4]>>,
       <<vs[4].v[1], vs[4].v[2], vs[4].v[3], vs[4].v[4]>> >>,
    Min2(Min2(vs[1].precision, vs[2].precision),
         Min2(vs[3].precision, vs[4].precision)))

\* fromColumns(v0, v1, v2, v3) without an explicit precision
fromColumns(vs) ==
  Matrix4x4Impl(
    << <<vs[1].v[1], vs[2].v[1], vs[3].v[1], vs[4].v[1]>>,
       <<vs[1].v[2], vs[2].v[2], vs[3].v[2], vs[4].v[2]>>,
       <<vs[1].v[3], vs[2].v[3], vs[3].v[3], vs[4].v[3]>>,
       <<vs[1].v[4], vs[2].v[4], vs[3].v[4], vs[4].v[4]>> >>,
    Min2(Min2(vs[1].precision, vs[2].precision),
         Min2(vs[3].precision, vs[4].precision)))

toRows(a) ==
  << vector4(At(a, 0, 0), At(a, 0, 1), At(a, 0, 2), At(a, 0, 3), a.precision),
     vector4(At(a, 1, 0), At(a, 1, 1), At(a, 1, 2), At(a, 1, 3), a.precision),
     vector4(At(a, 2, 0), At(a, 2, 1), At(a, 2, 2), At(a, 2, 3), a.precision),
     vector4(At(a, 3, 0), At(a, 3, 1), At(a, 3, 2), At(a, 3, 3), a.precision) >>

toColumns(a) ==
  << vector4(At(a, 0, 0), At(a, 1, 0), At(a, 2, 0), At(a, 3, 0), a.precision),
     vector4(At(a, 0, 1), At(a, 1, 1), At(a, 2, 1), At(a, 3, 1), a.precision),
     vector4(At(a, 0, 2), At(a, 1, 2), At(a, 2, 2), At(a, 3, 2), a.precision),
     vector4(At(a, 0, 3), At(a, 1, 3), At(a, 2, 3), At(a, 3, 3), a.precision) >>

setRow(a, row, v) == fromRows(ArrayWith(toRows(a), row, v))

setColumn(a, column, v) == fromColumns(ArrayWith(toColumns(a), column, v))

\* minor(m, row, column): the COLUMNS of m are spliced at `row`, then the
\* components of each remaining column are spliced at `column`
minor(a, row, column) ==
  LET vs == ToSpliced1(toColumns(a), row)
      r0 == ToSpliced1(components(vs[1]), column)
      r1 == ToSpliced1(components(vs[2]), column)
      r2 == ToSpliced1(components(vs[3]), column)
  IN  matrix3x3make(r0[1], r0[2], r0[3],
                    r1[1], r1[2], r1[3],
                    r2[1], r2[2], r2[3],
                    a.precision)

\* determinant(m): expansion along row 0 over minor(m, 0, j), rounded at the
\* default precision
determinant(a) ==
  roundInt(  At(a, 0, 0) * matrix3x3determinant(minor(a, 0, 0))
           - At(a, 0, 1) * matrix3x3determinant(minor(a, 0, 1))
           + At(a, 0, 2) * matrix3x3determinant(minor(a, 0, 2))
           - At(a, 0, 3) * matrix3x3determinant(minor(a, 0, 3)),
           PRECISION)

\* solveSystem(m, v): 1 / determinant(m) is not finite exactly when the
\* determinant is 0, and then the invariant throws; otherwise the i-th
\* component is determinant(setRow(m, i, v)) * (1 / determinant(m))
solveSystem(a, v) ==
  LET det == determinant(a)
  IN  IF det = 0
        THEN [error |-> "SingularMatrix"]
        ELSE LET inverseDeterminant == Rat(1, det)
             IN  vector4Q(RMul(RInt(determinant(setRow(a, 0, v))), inverseDeterminant),
                          RMul(RInt(determinant(setRow(a, 1, v))), inverseDeterminant),
                          RMul(RInt(determinant(setRow(a, 2, v))), inverseDeterminant),
                          RMul(RInt(determinant(setRow(a, 3, v))), inverseDeterminant),
                          PRECISION)

(***************************************************************************)
(* JavaScript numbers that are not finite.  [n |-> 0, d |-> 0] is NaN,     *)
(* [n |-> 1, d |-> 0] is Infinity and [n |-> -1, d |-> 0] is -Infinity.    *)
(***************************************************************************)
NaN == [n |-> 0, d |-> 0]

Infinity == [n |-> 1, d |-> 0]

IsNaN(x) == x.d = 0 /\ x.n = 0

IsFinite(x) == x.d # 0

\* a / b as JavaScript divides: x/0 is NaN for x = 0 and a signed infinity
\* otherwise (a and b finite)
JsDiv(a, b) ==
  IF b.n = 0
    THEN [n |-> Sign(a.n), d |-> 0]
    ELSE RDiv(a, b)

\* a < b as JavaScript compares: false whenever an operand is NaN
JsLt(a, b) ==
  /\ ~IsNaN(a)
  /\ ~IsNaN(b)
  /\ IF IsFinite(a) /\ IsFinite(b) THEN RLt(a, b)
     ELSE IF IsFinite(a) THEN b.n > 0
     ELSE IF IsFinite(b) THEN a.n < 0
     ELSE a.n < b.n

JsLe(a, b) == JsLt(a, b) \/ (~IsNaN(a) /\ a = b)

\* round leaves NaN and the infinities as they are
roundNumber(value, precision) ==
  IF IsFinite(value) THEN round(value, precision) ELSE value

\* Math.min(...values) / Math.max(...values): NaN when any value is NaN
MathMin(values) ==
  IF \E k \in 1..Len(values) : IsNaN(values[k])
    THEN NaN
    ELSE CHOOSE x \in {values[k] : k \in 1..Len(values)} :
           \A k \in 1..Len(values) : JsLe(x, values[k])

MathMax(values) ==
  IF \E k \in 1..Len(values) : IsNaN(values[k])
    THEN NaN
    ELSE CHOOSE x \in {values[k] : k \in 1..Len(values)} :
           \A k \in 1..Len(values) : JsLe(values[k], x)

\* the integer square root of a perfect square
IsSquare(k) == \E r \in 0..k : r * r = k

Sqrt(k) == CHOOSE r \in 0..k : r * r = k

\* the value `null`
Null == [null |-> TRUE]

(***************************************************************************)
(* interval.ts                                                             *)
(***************************************************************************)
\* Interval.make(start, end, precision): the endpoints rounded
IntervalMake(start, end, precision) ==
  [start |-> roundNumber(start, precision), end |-> roundNumber(end, precision),
   precision |-> precision]

\* Interval.fromMinMax(...values) = make(min(values), max(values))
fromMinMax(values) == IntervalMake(MathMin(values), MathMax(values), PRECISION)

\* Interval.size(i) = end - start
size(i) == round(RSub(i.end, i.start), i.precision)

\* Interval.contains(i, x, { includeStart, includeEnd })
contains(i, x, includeStart, includeEnd) ==
  /\ IF includeStart THEN JsLe(i.start, x) ELSE JsLt(i.start, x)
  /\ IF includeEnd THEN JsLe(x, i.end) ELSE JsLt(x, i.end)

(***************************************************************************)
(* polynomial/monotonicity.ts and polynomial/linear.internal.ts            *)
(***************************************************************************)
guaranteedMonotonicityFromComparison(ys, ye) ==
  IF JsLt(ys, ye) THEN "increasing"
  ELSE IF JsLt(ye, ys) THEN "decreasing"
  ELSE "constant"

\* Linear.make(c0, c1, precision)
LinearMake(c0, c1, precision) ==
  [c0 |-> round(c0, precision), c1 |-> round(c1, precision), precision |-> precision]

\* Linear.solve(p, x) = round(c0 + c1 * x, precision)
LinearSolve(l, x) == round(RAdd(l.c0, RMul(l.c1, x)), l.precision)

\* Linear.solveInverse(p, y): the root (y - c0) / c1, or null when c1 = 0
LinearSolveInverse(l, y) ==
  IF RIsZero(l.c1)
    THEN Null
    ELSE round(RDiv(RSub(y, l.c0), l.c1), l.precision)

\* Linear.monotonicity(p)
LinearMonotonicity(l) ==
  IF l.c1.n > 0 THEN "increasing"
  ELSE IF l.c1.n < 0 THEN "decreasing"
  ELSE "constant"

\* Linear.range(p, domain): from solve(start) to solve(end), ordered
LinearRange(l, domain) ==
  fromMinMax(<<LinearSolve(l, domain.start), LinearSolve(l, domain.end)>>)

(***************************************************************************)
(* polynomial/quadratic.internal.ts                                        *)
(***************************************************************************)
\* new QuadraticPolynomialImpl(c0, c1, c2, precision)
QuadraticPolynomialImpl(c0, c1, c2, precision) ==
  [c0 |-> round(c0, precision), c1 |-> round(c1, precision),
   c2 |-> round(c2, precision), precision |-> precision]

\* new CubicPolynomialImpl(c0, c1, c2, c3, precision)
CubicPolynomialImpl(c0, c1, c2, c3, precision) ==
  [c0 |-> round(c0, precision), c1 |-> round(c1, precision),
   c2 |-> round(c2, precision), c3 |-> round(c3, precision),
   precision |-> precision]

\* Cubic.derivative(p) = Quadratic(c1, 2 * c2, 3 * c3)
CubicDerivative(c) ==
  QuadraticPolynomialImpl(c.c1, RMul(RInt(2), c.c2), RMul(RInt(3), c.c3), c.precision)

\* solve(p, x) = round(c0 + x * c1 + x ** 2 * c2, precision)
solve(q, x) ==
  round(RAdd(RAdd(q.c0, RMul(x, q.c1)), RMul(RMul(x, x), q.c2)), q.precision)

\* c1 ** 2 - 4 * c2 * (c0 - y)
discriminant(q, y) ==
  RSub(RMul(q.c1, q.c1), RMul(RMul(RInt(4), q.c2), RSub(q.c0, y)))

\* [a, b].toSorted((a, b) => a - b): the pair is swapped when a - b > 0,
\* and kept when the difference is negative, zero or NaN
toSorted2(a, b) == IF JsLt(b, a) THEN <<b, a>> ELSE <<a, b>>

\* solveInverse without the final toSorted
solveInverseUnsorted(q, y) ==
  LET D == discriminant(q, y)
      minusC1 == RNeg(q.c1)
      twoC2 == RMul(RInt(2), q.c2)
  IN  IF D.n < 0 THEN <<>>
      ELSE IF D.n = 0 THEN <<roundNumber(JsDiv(minusC1, twoC2), q.precision)>>
      ELSE LET sqrtDiscriminant == Rat(Sqrt(D.n), Sqrt(D.d))
           IN  <<roundNumber(JsDiv(RAdd(minusC1, sqrtDiscriminant), twoC2), q.precision),
                 roundNumber(JsDiv(RSub(minusC1, sqrtDiscriminant), twoC2), q.precision)>>

\* solveInverse(p, y); the square root is taken of a perfect square, which
\* the operands of the model guarantee
solveInverse(q, y) ==
  LET D == discriminant(q, y)
      minusC1 == RNeg(q.c1)
      twoC2 == RMul(RInt(2), q.c2)
  IN  IF D.n < 0 THEN <<>>
      ELSE IF D.n = 0 THEN <<roundNumber(JsDiv(minusC1, twoC2), q.precision)>>
      ELSE LET sqrtDiscriminant == Rat(Sqrt(D.n), Sqrt(D.d))
           IN  toSorted2(
                 roundNumber(JsDiv(RAdd(minusC1, sqrtDiscriminant), twoC2), q.precision),
                 roundNumber(JsDiv(RSub(minusC1, sqrtDiscriminant), twoC2), q.precision))

\* derivative(p) = Linear.make(c1, c2 * 2, precision)
derivative(q) == LinearMake(q.c1, RMul(q.c2, RInt(2)), q.precision)

\* extreme with the two arms of the fallback exchanged
extremeFallbackSwapped(q) ==
  LET root == LinearSolveInverse(derivative(q), RInt(0))
  IN  IF root # Null THEN root
      ELSE IF RIsZero(q.c2) THEN RInt(0) ELSE Null

\* extreme(p) = derivative(p).pipe(Linear.solveInverse(0)) ?? (c2 === 0 ? null : 0)
extreme(q) ==
  LET root == LinearSolveInverse(derivative(q), RInt(0))
  IN  IF root # Null THEN root
      ELSE IF RIsZero(q.c2) THEN Null ELSE RInt(0)

\* monotonicity that counts an extreme on an endpoint as inside the interval
monotonicityClosedInterval(q, i) ==
  IF RIsZero(q.c2) /\ RIsZero(q.c1) THEN "constant"
  ELSE IF RIsZero(q.c2) THEN LinearMonotonicity(LinearMake(q.c0, q.c1, q.precision))
  ELSE LET e == extreme(q)
       IN  IF i # Null /\ RIsZero(size(i)) THEN "constant"
           ELSE IF i = Null \/ contains(i, e, TRUE, TRUE) THEN "none"
           ELSE guaranteedMonotonicityFromComparison(solve(q, i.start), solve(q, i.end))

\* monotonicity(p, i?); i = Null stands for the call without an interval
monotonicity(q, i) ==
  IF RIsZero(q.c2) /\ RIsZero(q.c1) THEN "constant"
  ELSE IF RIsZero(q.c2) THEN LinearMonotonicity(LinearMake(q.c0, q.c1, q.precision))
  ELSE LET e == extreme(q)
       IN  IF i # Null /\ RIsZero(size(i)) THEN "constant"
           ELSE IF i = Null \/ contains(i, e, FALSE, FALSE) THEN "none"
           ELSE guaranteedMonotonicityFromComparison(solve(q, i.start), solve(q, i.end))

\* antiderivative that divides c2 by 2 instead of 3
antiderivativeHalvedC2(q, integrationConstant) ==
  CubicPolynomialImpl(integrationConstant, q.c0, RDiv(q.c1, RInt(2)),
                      RDiv(q.c2, RInt(2)), q.precision)

\* antiderivative(p, integrationConstant)
antiderivative(q, integrationConstant) ==
  CubicPolynomialImpl(integrationConstant, q.c0, RDiv(q.c1, RInt(2)),
                      RDiv(q.c2, RInt(3)), q.precision)

\* domain(p, range)
domain(q, range) ==
  LET start == solveInverse(q, range.start)
      end == solveInverse(q, range.end)
  IN  IF Len(start) = 0 /\ Len(end) = 0
        THEN Null
        ELSE fromMinMax(start \o end)

\* range that never looks at the extreme
rangeOfEndpoints(q, dom) ==
  IF RIsZero(q.c2)
    THEN LinearRange(LinearMake(q.c0, q.c1, q.precision), dom)
    ELSE fromMinMax(<<solve(q, dom.start), solve(q, dom.end)>>)

\* range(p, domain)
range(q, dom) ==
  IF RIsZero(q.c2)
    THEN LinearRange(LinearMake(q.c0, q.c1, q.precision), dom)
    ELSE LET e == extreme(q)
         IN  IF e # Null /\ contains(dom, e, TRUE, TRUE)
               THEN fromMinMax(<<solve(q, dom.start), solve(q, dom.end), solve(q, e)>>)
               ELSE fromMinMax(<<solve(q, dom.start), solve(q, dom.end)>>)

(***************************************************************************)
(* Operands of the matrix operations.                                      *)
(***************************************************************************)
Entries == 0..MaxEntry

\* the vectors a caller passes, built with the default precision
Vectors == {vector4(a, b, c, d, PRECISION) : a \in Entries, b \in Entries,
                                             c \in Entries, d \in Entries}

\* make(1, 0, 0, 0, 0, 1, 0, 0, 0, 0, 1, 0, 0, 0, 0, 1)
Identity ==
  Matrix4x4Impl(<< <<1, 0, 0, 0>>, <<0, 1, 0, 0>>, <<0, 0, 1, 0>>, <<0, 0, 0, 1>> >>,
                PRECISION)

\* make(...) of the identity with column `column` and then row `row` set to
\* the components of w: symmetric when row = column, not symmetric otherwise
Cross(row, column, w) ==
  Matrix4x4Impl([i \in 1..4 |-> [j \in 1..4 |->
                   IF i = row + 1 THEN w.v[j]
                   ELSE IF j = column + 1 THEN w.v[i]
                   ELSE At(Identity, i - 1, j - 1)]],
                PRECISION)

Matrices == {Cross(row, column, w) : row \in Coordinate, column \in Coordinate,
                                     w \in Vectors}

NoMatrix == [e |-> <<>>, precision |-> PRECISION]

NoPolynomial == [c0 |-> RInt(0), c1 |-> RInt(0), c2 |-> RInt(0), precision |-> PRECISION]

NoResult == [op |-> "none"]

\* no curve has been created
NoCurve == [created |-> FALSE]

NoControls == <<>>

(***************************************************************************)
(* Calls on a matrix.                                                      *)
(***************************************************************************)
InitMatrix ==
  /\ m \in Matrices
  /\ p = NoPolynomial
  /\ curve = NoCurve
  /\ controls = NoControls
  /\ res = NoResult

Determinant ==
  /\ res = NoResult
  /\ res' = [op |-> "determinant", out |-> determinant(m)]
  /\ UNCHANGED <<m, p, curve, controls>>

Minor ==
  /\ res = NoResult
  /\ \E row \in Coordinate, column \in Coordinate :
       res' = [op |-> "minor", row |-> row, column |-> column,
               out |-> minor(m, row, column)]
  /\ UNCHANGED <<m, p, curve, controls>>

SolveSystem ==
  /\ res = NoResult
  /\ \E v \in Vectors :
       res' = [op |-> "solveSystem", v |-> v, out |-> solveSystem(m, v)]
  /\ UNCHANGED <<m, p, curve, controls>>

NextMatrix == Determinant \/ Minor \/ SolveSystem

SpecMatrix == InitMatrix /\ [][NextMatrix]_vars

(***************************************************************************)
(* Reference linear algebra, stated independently of the code.             *)
(***************************************************************************)
\* the index of the k-th (from 1) of the coordinates other than `skip`
Kept(k, skip) == IF k <= skip THEN k - 1 ELSE k

\* m with row `row` and column `column` deleted, the rest in row-major order
Submatrix(a, row, column) ==
  [i \in 1..3 |-> [j \in 1..3 |-> At(a, Kept(i, row), Kept(j, column))]]

Det3(e) ==
    e[1][1] * (e[2][2] * e[3][3] - e[2][3] * e[3][2])
  - e[1][2] * (e[2][1] * e[3][3] - e[2][3] * e[3][1])
  + e[1][3] * (e[2][1] * e[3][2] - e[2][2] * e[3][1])

\* cofactor expansion along row 0
CofactorExpansion(a) ==
    At(a, 0, 0) * Det3(Submatrix(a, 0, 0))
  - At(a, 0, 1) * Det3(Submatrix(a, 0, 1))
  + At(a, 0, 2) * Det3(Submatrix(a, 0, 2))
  - At(a, 0, 3) * Det3(Submatrix(a, 0, 3))

\* row i of M.x for a vector x of rationals
RowTimes(a, i, x) ==
  RAdd(RAdd(RMul(RInt(At(a, i, 0)), x[1]), RMul(RInt(At(a, i, 1)), x[2])),
       RAdd(RMul(RInt(At(a, i, 2)), x[3]), RMul(RInt(At(a, i, 3)), x[4])))

(***************************************************************************)
(* Claims about matrix4x4.                                                 *)
(***************************************************************************)
\* C1: whenever the determinant of M is non-zero, solveSystem(M, v) returns
\* the vector x with M.x = v, for symmetric and non-symmetric M alike.
C1_SolveSystemSolves ==
  (res.op = "solveSystem" /\ CofactorExpansion(m) # 0) =>
    /\ "v" \in DOMAIN res.out
    /\ \A i \in Coordinate : RowTimes(m, i, res.out.v) = RInt(res.v.v[i + 1])

\* C2: determinant(m) is the cofactor expansion of m along row 0, for
\* symmetric and non-symmetric m alike.
C2_DeterminantIsCofactorExpansion ==
  res.op = "determinant" => res.out = CofactorExpansion(m)

\* C3: minor(m, row, col) is m with row `row` and column `col` deleted, the
\* remaining entries in their original row-major order.
C3_MinorDeletesRowAndColumn ==
  res.op = "minor" => res.out.e = Submatrix(m, res.row, res.column)

(***************************************************************************)
(* Operands of the polynomial operations.                                  *)
(***************************************************************************)
Coefficients == {RInt(k) : k \in -MaxCoef..MaxCoef}

Precisions == {LowPrecision, PRECISION}

\* make(c0, c1, c2, precision)
Polynomials ==
  {QuadraticPolynomialImpl(c0, c1, c2, precision) :
     c0 \in Coefficients, c1 \in Coefficients, c2 \in Coefficients,
     precision \in Precisions}

Arguments == {RInt(k) : k \in -MaxArg..MaxArg}

\* integration constants: the halves between -MaxArg / 2 and MaxArg / 2
Constants == {Rat(k, 2) : k \in -MaxArg..MaxArg}

\* Interval.make(start, end) succeeds for start <= end only
Intervals ==
  {IntervalMake(ab[1], ab[2], PRECISION) :
     ab \in {x \in Arguments \X Arguments : RLe(x[1], x[2])}}

\* Math.sqrt is exact on the discriminant of (q, y)
ExactSqrt(q, y) ==
  LET D == discriminant(q, y)
  IN  D.n > 0 => (IsSquare(D.n) /\ IsSquare(D.d))

(***************************************************************************)
(* Calls on a quadratic polynomial.                                        *)
(***************************************************************************)
InitQuadratic ==
  /\ m = NoMatrix
  /\ p \in Polynomials
  /\ curve = NoCurve
  /\ controls = NoControls
  /\ res = NoResult

SolveInverse ==
  /\ res = NoResult
  /\ \E y \in Arguments :
       /\ ExactSqrt(p, y)
       /\ res' = [op |-> "solveInverse", y |-> y, out |-> solveInverse(p, y)]
  /\ UNCHANGED <<m, p, curve, controls>>

Derivative ==
  /\ res = NoResult
  /\ res' = [op |-> "derivative", out |-> derivative(p)]
  /\ UNCHANGED <<m, p, curve, controls>>

Extreme ==
  /\ res = NoResult
  /\ res' = [op |-> "extreme", out |-> extreme(p)]
  /\ UNCHANGED <<m, p, curve, controls>>

Monotonicity ==
  /\ res = NoResult
  /\ \E i \in Intervals \cup {Null} :
       res' = [op |-> "monotonicity", i |-> i, out |-> monotonicity(p, i)]
  /\ UNCHANGED <<m, p, curve, controls>>

Antiderivative ==
  /\ res = NoResult
  /\ \E k \in Constants :
       res' = [op |-> "antiderivative", k |-> k, out |-> antiderivative(p, k)]
  /\ UNCHANGED <<m, p, curve, controls>>

Domain ==
  /\ res = NoResult
  /\ \E r \in Intervals :
       /\ ExactSqrt(p, r.start)
       /\ ExactSqrt(p, r.end)
       /\ res' = [op |-> "domain", range |-> r, out |-> domain(p, r)]
  /\ UNCHANGED <<m, p, curve, controls>>

Range ==
  /\ res = NoResult
  /\ \E d \in Intervals :
       res' = [op |-> "range", domain |-> d, out |-> range(p, d)]
  /\ UNCHANGED <<m, p, curve, controls>>

NextQuadratic ==
  \/ SolveInverse
  \/ Derivative
  \/ Extreme
  \/ Monotonicity
  \/ Antiderivative
  \/ Domain
  \/ Range

SpecQuadratic == InitQuadratic /\ [][NextQuadratic]_vars

(***************************************************************************)
(* Claims about the quadratic polynomial.                                  *)
(***************************************************************************)
\* -c1 / (2 * c2) rounded to the precision of q (c2 # 0)
Vertex(q) == round(RDiv(RNeg(q.c1), RMul(RInt(2), q.c2)), q.precision)

\* (-c1 + s * sqrt(D)) / (2 * c2) rounded to the precision of q (c2 # 0, D > 0)
Root(q, y, s) ==
  LET D == discriminant(q, y)
  IN  round(RDiv(RAdd(RNeg(q.c1), RMul(RInt(s), Rat(Sqrt(D.n), Sqrt(D.d)))),
                 RMul(RInt(2), q.c2)),
            q.precision)

\* the parts of C4 that do not depend on how two roots compare
RootsByDiscriminant ==
  LET D == discriminant(p, res.y)
  IN  /\ D.n < 0 => res.out = <<>>
      /\ D.n = 0 => res.out = <<Vertex(p)>>
      /\ D.n > 0 => /\ Len(res.out) = 2
                    /\ {res.out[1], res.out[2]} = {Root(p, res.y, 1), Root(p, res.y, -1)}

\* C4 as stated: with c2 # 0, solveInverse(p, y) is empty for D < 0, the one
\* root -c1/(2 c2) for D = 0 and the two roots (-c1 +- sqrt D)/(2 c2) for
\* D > 0; the result is ascending and never holds the same root twice.
C4_Original ==
  (res.op = "solveInverse" /\ ~RIsZero(p.c2)) =>
    /\ RootsByDiscriminant
    /\ \A j \in 1..Len(res.out), k \in 1..Len(res.out) :
         j < k => RLt(res.out[j], res.out[k])

\* C4 as amended: the roots are rounded to the precision of p and returned in
\* non-descending order; for D > 0 the two entries are equal exactly when the
\* two roots round to the same value.
C4_RootsRoundedAndSorted ==
  (res.op = "solveInverse" /\ ~RIsZero(p.c2)) =>
    /\ RootsByDiscriminant
    /\ \A j \in 1..Len(res.out), k \in 1..Len(res.out) :
         j < k => RLe(res.out[j], res.out[k])
    /\ Len(res.out) = 2 =>
         (res.out[1] = res.out[2] <=> Root(p, res.y, 1) = Root(p, res.y, -1))

\* two distinct roots that a low precision rounds to one value
C4_Witness ==
  /\ res.op = "solveInverse"
  /\ ~RIsZero(p.c2)
  /\ discriminant(p, res.y).n > 0
  /\ Len(res.out) = 2
  /\ res.out[1] = res.out[2]

\* C5: with c2 = 0, solveInverse(p, y) is the linear inversion: the one finite
\* root (y - c0) / c1 when c1 # 0, no root when c1 = 0, never NaN or an
\* infinity.
C5_DelegatesToLinear ==
  (res.op = "solveInverse" /\ RIsZero(p.c2)) =>
    /\ \A k \in 1..Len(res.out) : IsFinite(res.out[k])
    /\ res.out = IF RIsZero(p.c1)
                   THEN <<>>
                   ELSE <<round(RDiv(RSub(res.y, p.c0), p.c1), p.precision)>>

\* C6 as stated: extreme(p) is the root of the derivative when c2 # 0, null
\* when c1 = 0 and c2 = 0, and 0 when c2 = 0 and c1 # 0.
C6_Original ==
  res.op = "extreme" =>
    res.out = IF ~RIsZero(p.c2) THEN Vertex(p)
              ELSE IF RIsZero(p.c1) THEN Null
              ELSE RInt(0)

\* C6 as amended: extreme(p) is the root of the derivative, -c1/(2 c2) rounded
\* to the precision of p, when c2 # 0, and null whenever c2 = 0, whatever c1.
C6_ExtremeNullWithoutC2 ==
  res.op = "extreme" =>
    res.out = IF ~RIsZero(p.c2) THEN Vertex(p) ELSE Null

\* the extreme of a polynomial of degree one was asked for
C6_Witness ==
  /\ res.op = "extreme"
  /\ RIsZero(p.c2)
  /\ ~RIsZero(p.c1)
  /\ res.out = Null

\* C7: monotonicity(p, i?) decides in this order: c1 = c2 = 0 is constant;
\* c2 = 0 is increasing or decreasing by the sign of c1, whatever i; an
\* interval of size 0 is constant; no interval, or the extreme strictly
\* between the endpoints, is none; otherwise solve(p, start) is compared with
\* solve(p, end).  An extreme on an endpoint is never none.
C7_MonotonicityOrder ==
  res.op = "monotonicity" =>
    LET i == res.i
        expected ==
          IF RIsZero(p.c1) /\ RIsZero(p.c2) THEN "constant"
          ELSE IF RIsZero(p.c2) THEN (IF p.c1.n > 0 THEN "increasing" ELSE "decreasing")
          ELSE IF i # Null /\ i.start = i.end THEN "constant"
          ELSE IF i = Null THEN "none"
          ELSE IF RLt(i.start, Vertex(p)) /\ RLt(Vertex(p), i.end) THEN "none"
          ELSE IF RLt(solve(p, i.start), solve(p, i.end)) THEN "increasing"
          ELSE IF RLt(solve(p, i.end), solve(p, i.start)) THEN "decreasing"
          ELSE "constant"
    IN  /\ res.out = expected
        /\ (i # Null /\ ~RIsZero(p.c2) /\ Vertex(p) \in {i.start, i.end}) =>
             res.out # "none"

\* the extreme lies on an endpoint of an interval that is not a point
C7_Witness ==
  /\ res.op = "monotonicity"
  /\ ~RIsZero(p.c2)
  /\ res.i # Null
  /\ res.i.start # res.i.end
  /\ Vertex(p) \in {res.i.start, res.i.end}
  /\ res.out \in {"increasing", "decreasing"}

\* C8: domain(p, yRange) is null exactly when solveInverse finds no root at
\* either end of yRange; otherwise it is the interval from the smallest to
\* the largest of the roots found.
C8_DomainSpansRoots ==
  res.op = "domain" =>
    LET roots == solveInverse(p, res.range.start) \o solveInverse(p, res.range.end)
        found == {roots[k] : k \in 1..Len(roots)}
    IN  /\ res.out = Null <=> roots = <<>>
        /\ res.out # Null =>
             /\ res.out.start \in found
             /\ res.out.end \in found
             /\ \A r \in found : JsLe(res.out.start, r) /\ JsLe(r, res.out.end)

\* C8 holds of every polynomial whose c2 is not 0
C8_DomainSpansRootsOfProperQuadratic ==
  ~RIsZero(p.c2) => C8_DomainSpansRoots

\* C9: range(p, xDomain) runs from the least to the greatest of solve(start),
\* solve(end) and, when the extreme exists and lies in xDomain (endpoints
\* included), solve(extreme); with c2 = 0 it is the linear range of
\* Linear(c0, c1).
C9_RangeOverEndpointsAndExtreme ==
  res.op = "range" =>
    LET d == res.domain
        ys == solve(p, d.start)
        ye == solve(p, d.end)
        inside == ~RIsZero(p.c2) /\ RLe(d.start, Vertex(p)) /\ RLe(Vertex(p), d.end)
        values == IF inside THEN {ys, ye, solve(p, Vertex(p))} ELSE {ys, ye}
    IN  /\ res.out.start \in values
        /\ res.out.end \in values
        /\ \A y \in values : RLe(res.out.start, y) /\ RLe(y, res.out.end)
        /\ RIsZero(p.c2) => res.out = LinearRange(LinearMake(p.c0, p.c1, p.precision), d)

\* the extreme lies in the domain and its value is an end of the range that
\* neither endpoint of the domain attains
C9_Witness ==
  /\ res.op = "range"
  /\ ~RIsZero(p.c2)
  /\ RLe(res.domain.start, Vertex(p))
  /\ RLe(Vertex(p), res.domain.end)
  /\ {res.out.start, res.out.end} \cap
       ({solve(p, Vertex(p))} \ {solve(p, res.domain.start), solve(p, res.domain.end)}) # {}

\* C10 as stated: antiderivative(p, k) is Cubic(k, c0, c1/2, c2/3) with the
\* precision of p, its c0 is k, and the derivative of that cubic is p again;
\* derivative(p) is Linear(c1, 2 c2) with the precision of p.
C10_Original ==
  /\ res.op = "antiderivative" =>
       /\ res.out = [c0 |-> res.k, c1 |-> p.c0, c2 |-> RDiv(p.c1, RInt(2)),
                     c3 |-> RDiv(p.c2, RInt(3)), precision |-> p.precision]
       /\ CubicDerivative(res.out) = p
  /\ res.op = "derivative" =>
       res.out = [c0 |-> p.c1, c1 |-> RMul(RInt(2), p.c2), precision |-> p.precision]

\* C10 as amended: the coefficients k, c0, c1/2, c2/3 of the antiderivative
\* are rounded to the precision of p; the derivative of that cubic is
\* Quadratic(c0, 2 round(c1/2), 3 round(c2/3)), which is p again whenever
\* rounding leaves c1/2 and c2/3 unchanged; derivative(p) is Linear(c1, 2 c2)
\* with the precision of p.
C10_AntiderivativeRounded ==
  /\ res.op = "antiderivative" =>
       LET half == round(RDiv(p.c1, RInt(2)), p.precision)
           third == round(RDiv(p.c2, RInt(3)), p.precision)
       IN  /\ res.out = [c0 |-> round(res.k, p.precision), c1 |-> p.c0, c2 |-> half,
                         c3 |-> third, precision |-> p.precision]
           /\ CubicDerivative(res.out) =
                [c0 |-> p.c0, c1 |-> RMul(RInt(2), half), c2 |-> RMul(RInt(3), third),
                 precision |-> p.precision]
           /\ (half = RDiv(p.c1, RInt(2)) /\ third = RDiv(p.c2, RInt(3))) =>
                CubicDerivative(res.out) = p
  /\ res.op = "derivative" =>
       res.out = [c0 |-> p.c1, c1 |-> RMul(RInt(2), p.c2), precision |-> p.precision]

\* an antiderivative whose derivative is not the polynomial it was taken of
C10_Witness ==
  /\ res.op = "antiderivative"
  /\ ~RIsZero(p.c2)
  /\ CubicDerivative(res.out) # p

(***************************************************************************)
(* curve.ts                                                                *)
(***************************************************************************)
\* the interval [0, 1] of the curve parameter
UnitInterval == IntervalMake(RInt(0), RInt(1), PRECISION)

\* spline.chunkCoefficients(scalars): the polynomial of the one segment that
\* three control scalars span, a Bezier segment of degree two (a cubic whose
\* leading coefficient is 0)
chunkCoefficients(scalars) ==
  QuadraticPolynomialImpl(RInt(scalars[1]),
                          RInt(2 * (scalars[2] - scalars[1])),
                          RInt(scalars[1] - 2 * scalars[2] + scalars[3]),
                          PRECISION)

\* createCurveAxis(polynomial): the axis of one segment over t in [0, 1]
createCurveAxis(q) ==
  [polynomial |-> q,
   domain |-> UnitInterval,
   monotonicity |-> monotonicity(q, UnitInterval)]

\* CurveAxis.solvePosition(t)
solvePosition(axis, t) == solve(axis.polynomial, t)

\* CurveAxis.solveT(position, domain): the parameters inside the domain at
\* which the axis takes the position, in ascending order; degree-degenerate
\* polynomials are solved one degree lower
axisSolveT(axis, position, dom) ==
  LET q == axis.polynomial
      Inside(t) == contains(dom, t, TRUE, TRUE)
  IN  IF RIsZero(q.c2)
        THEN LET root == LinearSolveInverse(LinearMake(q.c0, q.c1, q.precision), position)
             IN  IF root = Null THEN <<>> ELSE SelectSeq(<<root>>, Inside)
        ELSE SelectSeq(solveInverse(q, position), Inside)

\* createCurve(points, spline); `lookup` is the table createLengthLookup
\* builds for the curve
createCurve(points, lookup) ==
  LET axisKeys == DOMAIN points[1]
  IN  IF \E k \in 1..Len(points) : \E key \in axisKeys : key \notin DOMAIN points[k]
        THEN [error |-> "InvalidInput"]
        ELSE [created |-> TRUE,
              axisKeys |-> axisKeys,
              axes |-> [key \in axisKeys |->
                          createCurveAxis(chunkCoefficients(
                            [k \in 1..Len(points) |-> points[k][key]]))],
              lengthLookup |-> lookup]

\* solveT(t, precision) of a curve
curveSolveT(c, t, precision) ==
  LET rounded == round(t, PRECISION)
  IN  IF ~(RLe(RInt(0), rounded) /\ RLe(rounded, RInt(1)))
        THEN [error |-> "InvalidInput"]
        ELSE [position |-> [key \in c.axisKeys |->
                              round(solvePosition(c.axes[key], rounded), precision)]]

\* positionAt that applies the blend to every normalize, the negative ones too
positionAtAlwaysBlend(c, input, normalize, precision) ==
  IF ~(RLe(RInt(0), input) /\ RLe(input, RInt(1)))
    THEN [error |-> "InvalidInput"]
    ELSE curveSolveT(c, RAdd(RMul(RSub(RInt(1), normalize), input),
                             RMul(normalize, c.lengthLookup[input])),
                     precision)

\* positionAt that clamps the input into [0, 1] instead of rejecting it
positionAtClamped(c, input, normalize, precision) ==
  LET x == IF RLt(input, RInt(0)) THEN RInt(0)
           ELSE IF RLt(RInt(1), input) THEN RInt(1) ELSE input
  IN  IF normalize.n > 0
        THEN IF normalize = RInt(1)
               THEN curveSolveT(c, c.lengthLookup[x], precision)
               ELSE curveSolveT(c, RAdd(RMul(RSub(RInt(1), normalize), x),
                                        RMul(normalize, c.lengthLookup[x])),
                                precision)
        ELSE curveSolveT(c, x, precision)

\* positionAt(input, normalize, precision)
positionAt(c, input, normalize, precision) ==
  IF ~(RLe(RInt(0), input) /\ RLe(input, RInt(1)))
    THEN [error |-> "InvalidInput"]
    ELSE IF normalize.n > 0
           THEN IF normalize = RInt(1)
                  THEN curveSolveT(c, c.lengthLookup[input], precision)
                  ELSE curveSolveT(c, RAdd(RMul(RSub(RInt(1), normalize), input),
                                           RMul(normalize, c.lengthLookup[input])),
                                   precision)
           ELSE curveSolveT(c, input, precision)

\* solveWhere that rejects every axis that is not strictly monotone
solveWhereStrict(c, axis, position, precision) ==
  LET curveAxis == c.axes[axis]
  IN  IF curveAxis.monotonicity \notin {"increasing", "decreasing"}
        THEN [error |-> "NonMonotonicAxis"]
        ELSE LET ts == axisSolveT(curveAxis, position, curveAxis.domain)
             IN  IF Len(ts) = 0
                   THEN [error |-> "RootUnsolvable"]
                   ELSE [position |-> [key \in c.axisKeys |->
                           IF key = axis
                             THEN round(position, precision)
                             ELSE round(solvePosition(c.axes[key], ts[1]), precision)]]

\* solveWhere(axis, position, precision)
solveWhere(c, axis, position, precision) ==
  LET curveAxis == c.axes[axis]
  IN  IF curveAxis.monotonicity = "none"
        THEN [error |-> "NonMonotonicAxis"]
        ELSE LET ts == axisSolveT(curveAxis, position, curveAxis.domain)
             IN  IF Len(ts) = 0
                   THEN [error |-> "RootUnsolvable"]
                   ELSE [position |-> [key \in c.axisKeys |->
                           IF key = axis
                             THEN round(position, precision)
                             ELSE round(solvePosition(c.axes[key], ts[1]), precision)]]

(***************************************************************************)
(* Operands of the curve operations.                                       *)
(***************************************************************************)
\* the axis keys a point may carry
AxisKeys == {"x", "y"}

PointValues == 0..MaxPoint

\* a point carries the axis x, or the axes x and y
Points == [{"x"} -> PointValues] \cup [AxisKeys -> PointValues]

\* the control points of one segment
PointLists == {<<a, b, c>> : a \in Points, b \in Points, c \in Points}

\* the inputs of positionAt: the halves from -1/2 to 3/2
Inputs == {Rat(k, 2) : k \in -1..3}

\* the normalize values of positionAt: the halves between -MaxNormalize / 2
\* and MaxNormalize / 2
Normalizes == {Rat(k, 2) : k \in -MaxNormalize..MaxNormalize}

\* the positions solveWhere is asked for: the halves inside the control range
Positions == {Rat(k, 2) : k \in 0..(2 * MaxPoint)}

\* the tables createLengthLookup may build over the inputs 0, 1/2 and 1:
\* monotone, 0 at 0 and 1 at 1
LengthLookups ==
  {[s \in {RInt(0), Rat(1, 2), RInt(1)} |->
      IF s = RInt(0) THEN RInt(0) ELSE IF s = RInt(1) THEN RInt(1) ELSE mid] :
     mid \in {Rat(1, 8), Rat(1, 2), Rat(7, 8)}}

(***************************************************************************)
(* Calls on a curve.                                                       *)
(***************************************************************************)
InitCurve ==
  /\ m = NoMatrix
  /\ p = NoPolynomial
  /\ curve = NoCurve
  /\ controls = NoControls
  /\ res = NoResult

\* createCurve either returns the curve or throws
CreateCurve ==
  /\ res = NoResult
  /\ curve = NoCurve
  /\ \E points \in PointLists, lookup \in LengthLookups :
       LET out == createCurve(points, lookup)
       IN  /\ res' = [op |-> "createCurve", points |-> points, out |-> out]
           /\ curve' = IF "error" \in DOMAIN out THEN curve ELSE out
  /\ UNCHANGED <<m, p, controls>>

\* one call on the curve that createCurve returned
PositionAt ==
  /\ res.op = "createCurve"
  /\ curve # NoCurve
  /\ \E input \in Inputs, normalize \in Normalizes, precision \in Precisions :
       res' = [op |-> "positionAt", input |-> input, normalize |-> normalize,
               precision |-> precision,
               out |-> positionAt(curve, input, normalize, precision)]
  /\ UNCHANGED <<m, p, curve, controls>>

SolveWhere ==
  /\ res.op = "createCurve"
  /\ curve # NoCurve
  /\ \E axis \in curve.axisKeys, position \in Positions, precision \in Precisions :
       /\ ExactSqrt(curve.axes[axis].polynomial, position)
       /\ res' = [op |-> "solveWhere", axis |-> axis, position |-> position,
                  precision |-> precision,
                  out |-> solveWhere(curve, axis, position, precision)]
  /\ UNCHANGED <<m, p, curve, controls>>

NextCurve == CreateCurve \/ PositionAt \/ SolveWhere

SpecCurve == InitCurve /\ [][NextCurve]_vars

(***************************************************************************)
(* Claims about the curve.                                                 *)
(***************************************************************************)
\* the call failed with the given kind of failure
Failed(out, kind) == "error" \in DOMAIN out /\ out.error = kind

\* the point whose coordinate on every axis is the axis evaluated at t,
\* rounded to the precision
PointAt(c, t, precision) ==
  [key \in c.axisKeys |-> round(solve(c.axes[key].polynomial, t), precision)]

\* C11 (as stated): solveWhere succeeds only when the chosen axis is strictly
\* monotone ('increasing' or 'decreasing'); on any other axis, a 'constant'
\* one included, it fails with NonMonotonicAxis and returns no point.
C11_Original ==
  res.op = "solveWhere" =>
    LET strict == curve.axes[res.axis].monotonicity \in {"increasing", "decreasing"}
    IN  /\ "position" \in DOMAIN res.out => strict
        /\ ~strict => Failed(res.out, "NonMonotonicAxis")

\* C11 (amended): solveWhere fails with NonMonotonicAxis exactly when the
\* monotonicity of the chosen axis is 'none'; on every other axis, a
\* 'constant' one included, it fails with RootUnsolvable when no parameter
\* in [0, 1] takes the position, and otherwise returns the point whose chosen
\* coordinate is the rounded position and whose other coordinates are the
\* other axes evaluated at the first such parameter.
C11_NonMonotonicAxisOnlyForNone ==
  res.op = "solveWhere" =>
    LET axis == curve.axes[res.axis]
        ts == axisSolveT(axis, res.position, UnitInterval)
    IN  /\ Failed(res.out, "NonMonotonicAxis") <=> axis.monotonicity = "none"
        /\ axis.monotonicity # "none" =>
             IF Len(ts) = 0
               THEN Failed(res.out, "RootUnsolvable")
               ELSE /\ "position" \in DOMAIN res.out
                    /\ \A key \in curve.axisKeys :
                         res.out.position[key] =
                           IF key = res.axis
                             THEN round(res.position, res.precision)
                             ELSE PointAt(curve, ts[1], res.precision)[key]

\* solveWhere was called on a 'constant' axis and did not fail with
\* NonMonotonicAxis
C11_Witness ==
  /\ res.op = "solveWhere"
  /\ curve.axes[res.axis].monotonicity = "constant"
  /\ Failed(res.out, "RootUnsolvable")

\* the parameter of the blend (1 - normalize) * input + normalize * lookup(input)
Blend(c, input, normalize) ==
  RAdd(RMul(RSub(RInt(1), normalize), input), RMul(normalize, c.lengthLookup[input]))

InUnit(t) == RLe(RInt(0), t) /\ RLe(t, RInt(1))

\* C12 (as stated): for every input in [0, 1] and every normalize, positionAt
\* evaluates all axes at t = (1 - normalize) * input + normalize * lookup(input).
C12_Original ==
  (res.op = "positionAt" /\ InUnit(res.input)) =>
    /\ "position" \in DOMAIN res.out
    /\ res.out.position = PointAt(curve, Blend(curve, res.input, res.normalize),
                                  res.precision)

\* C12 (amended): for every input in [0, 1], positionAt takes t = input when
\* normalize <= 0 and t = (1 - normalize) * input + normalize * lookup(input)
\* when normalize > 0; it returns all axes evaluated at t when t lies in
\* [0, 1] and fails with InvalidInput when it does not.
C12_BlendForPositiveNormalize ==
  (res.op = "positionAt" /\ InUnit(res.input)) =>
    LET t == IF res.normalize.n > 0
               THEN Blend(curve, res.input, res.normalize)
               ELSE res.input
    IN  IF InUnit(t)
          THEN /\ "position" \in DOMAIN res.out
               /\ res.out.position = PointAt(curve, t, res.precision)
          ELSE Failed(res.out, "InvalidInput")

\* positionAt was called with a negative normalize, and the point it returned
\* is the curve at the input, not at the blend
C12_Witness ==
  /\ res.op = "positionAt"
  /\ InUnit(res.input)
  /\ res.normalize.n < 0
  /\ "position" \in DOMAIN res.out
  /\ res.out.position = PointAt(curve, res.input, res.precision)
  /\ res.out.position # PointAt(curve, Blend(curve, res.input, res.normalize),
                                res.precision)

\* C13: positionAt fails with InvalidInput whenever input < 0 or input > 1,
\* for every normalize and precision; createCurve fails with InvalidInput,
\* and no curve exists, when a point lacks an axis key of the first point.
C13_InvalidInput ==
  /\ (res.op = "positionAt" /\ ~InUnit(res.input)) =>
       Failed(res.out, "InvalidInput")
  /\ (res.op = "createCurve"
        /\ \E k \in 1..Len(res.points) :
             \E key \in DOMAIN res.points[1] : key \notin DOMAIN res.points[k]) =>
       /\ Failed(res.out, "InvalidInput")
       /\ curve = NoCurve

\* positionAt was called with an input above 1, without length normalization
\* and below the default precision, and failed
C13_Witness ==
  /\ res.op = "positionAt"
  /\ RLt(RInt(1), res.input)
  /\ res.normalize = RInt(0)
  /\ res.precision = LowPrecision
  /\ Failed(res.out, "InvalidInput")

(***************************************************************************)
(* splines: segment chunking and characteristic matrices                   *)
(***************************************************************************)
\* the windows of four scalars that start at index `start` (from 0) and
\* advance by `stride`
RECURSIVE Windows(_, _, _)
Windows(seq, stride, start) ==
  IF start + 4 > Len(seq)
    THEN <<>>
    ELSE <<SubSeq(seq, start + 1, start + 4)>> \o Windows(seq, stride, start + stride)

\* toCubicScalars that advances by one scalar whatever the stride
toCubicScalarsUnitStride(seq, stride) ==
  IF Len(seq) < 4 \/ stride \notin 1..3 \/ (Len(seq) - 4) % stride # 0
    THEN [error |-> "InvalidChunking"]
    ELSE [chunks |-> Windows(seq, 1, 0)]

\* toCubicScalars that drops the scalars left over after the last window
toCubicScalarsTruncating(seq, stride) ==
  IF Len(seq) < 4 \/ stride \notin 1..3
    THEN [error |-> "InvalidChunking"]
    ELSE [chunks |-> Windows(seq, stride, 0)]

\* toCubicScalars(seq, stride)
toCubicScalars(seq, stride) ==
  IF Len(seq) < 4 \/ stride \notin 1..3 \/ (Len(seq) - 4) % stride # 0
    THEN [error |-> "InvalidChunking"]
    ELSE [chunks |-> Windows(seq, stride, 0)]

toBezierSegments(seq) == toCubicScalars(seq, 3)

toHermiteSegments(seq) == toCubicScalars(seq, 2)

toCardinalSegments(seq) == toCubicScalars(seq, 1)

toCatmullRomSegments(seq) == toCubicScalars(seq, 1)

toBSplineSegments(seq) == toCubicScalars(seq, 1)

\* cardinal with the rows in ascending order of the power of t
cardinalAscending(a) ==
  << <<RInt(0), RInt(1), RInt(0), RInt(0)>>,
     <<RNeg(a), RInt(0), a, RInt(0)>>,
     <<RMul(RInt(2), a), RSub(a, RInt(3)), RSub(RInt(3), RMul(RInt(2), a)), RNeg(a)>>,
     <<RNeg(a), RSub(RInt(2), a), RSub(a, RInt(2)), a>> >>

\* cardinal(a): [[-a, 2 - a, a - 2, a], [2 * a, a - 3, 3 - 2 * a, -a],
\*               [-a, 0, a, 0], [0, 1, 0, 0]]
cardinal(a) ==
  << <<RNeg(a), RSub(RInt(2), a), RSub(a, RInt(2)), a>>,
     <<RMul(RInt(2), a), RSub(a, RInt(3)), RSub(RInt(3), RMul(RInt(2), a)), RNeg(a)>>,
     <<RNeg(a), RInt(0), a, RInt(0)>>,
     <<RInt(0), RInt(1), RInt(0), RInt(0)>> >>

\* the matrix createCubicHermiteSpline hands to createParametricSplineFactory
HermiteMatrix ==
  << <<2, -3, 0, 1>>,
     <<1, -2, 1, 0>>,
     <<1, -1, 0, 0>>,
     <<-2, 3, 0, 0>> >>

\* the cubic of one chunk under a characteristic matrix of the factory: row i
\* of the matrix is the weight of control scalar i, its columns are the
\* coefficients of t^3, t^2, t and 1
chunkCubic(matrix, chunk) ==
  LET Coefficient(j) ==
        RInt(  chunk[1] * matrix[1][j] + chunk[2] * matrix[2][j]
             + chunk[3] * matrix[3][j] + chunk[4] * matrix[4][j])
  IN  CubicPolynomialImpl(Coefficient(4), Coefficient(3), Coefficient(2),
                          Coefficient(1), PRECISION)

\* createCubicHermiteSpline(controls): one cubic per chunk of stride 2
createCubicHermiteSpline(seq) ==
  LET segments == toHermiteSegments(seq)
  IN  IF "error" \in DOMAIN segments
        THEN segments
        ELSE [cubics |-> [k \in 1..Len(segments.chunks) |->
                            chunkCubic(HermiteMatrix, segments.chunks[k])]]

\* Cubic.solve(p, x) = round(c0 + x * c1 + x ** 2 * c2 + x ** 3 * c3, precision)
CubicSolve(c, x) ==
  round(RAdd(RAdd(c.c0, RMul(x, c.c1)),
             RAdd(RMul(RMul(x, x), c.c2), RMul(RMul(RMul(x, x), x), c.c3))),
        c.precision)

(***************************************************************************)
(* Operands of the spline operations.                                      *)
(***************************************************************************)
Scalars == 0..MaxScalar

\* the sequences of at most MaxLen control scalars
ControlLists == UNION {[1..n -> Scalars] : n \in 0..MaxLen}

Strides == 0..MaxStride

\* the tensions of cardinal: the halves from 0 to MaxTension / 2
Tensions == {Rat(k, 2) : k \in 0..MaxTension}

(***************************************************************************)
(* Calls on a sequence of control scalars.                                 *)
(***************************************************************************)
InitSpline ==
  /\ m = NoMatrix
  /\ p = NoPolynomial
  /\ curve = NoCurve
  /\ controls \in ControlLists
  /\ res = NoResult

ToCubicScalars ==
  /\ res = NoResult
  /\ \E stride \in Strides :
       res' = [op |-> "toCubicScalars", stride |-> stride,
               out |-> toCubicScalars(controls, stride)]
  /\ UNCHANGED <<m, p, curve, controls>>

ToBezierSegments ==
  /\ res = NoResult
  /\ res' = [op |-> "toBezierSegments",
             out |-> toBezierSegments(controls)]
  /\ UNCHANGED <<m, p, curve, controls>>

ToHermiteSegments ==
  /\ res = NoResult
  /\ res' = [op |-> "toHermiteSegments",
             out |-> toHermiteSegments(controls)]
  /\ UNCHANGED <<m, p, curve, controls>>

ToCardinalSegments ==
  /\ res = NoResult
  /\ res' = [op |-> "toCardinalSegments",
             out |-> toCardinalSegments(controls)]
  /\ UNCHANGED <<m, p, curve, controls>>

ToCatmullRomSegments ==
  /\ res = NoResult
  /\ res' = [op |-> "toCatmullRomSegments",
             out |-> toCatmullRomSegments(controls)]
  /\ UNCHANGED <<m, p, curve, controls>>

ToBSplineSegments ==
  /\ res = NoResult
  /\ res' = [op |-> "toBSplineSegments",
             out |-> toBSplineSegments(controls)]
  /\ UNCHANGED <<m, p, curve, controls>>

Cardinal ==
  /\ res = NoResult
  /\ \E a \in Tensions :
       res' = [op |-> "cardinal", a |-> a, out |-> cardinal(a)]
  /\ UNCHANGED <<m, p, curve, controls>>

CreateCubicHermiteSpline ==
  /\ res = NoResult
  /\ res' = [op |-> "createCubicHermiteSpline",
             out |-> createCubicHermiteSpline(controls)]
  /\ UNCHANGED <<m, p, curve, controls>>

NextSpline ==
  \/ ToCubicScalars
  \/ ToBezierSegments
  \/ ToHermiteSegments
  \/ ToCardinalSegments
  \/ ToCatmullRomSegments
  \/ ToBSplineSegments
  \/ Cardinal
  \/ CreateCubicHermiteSpline

SpecSpline == InitSpline /\ [][NextSpline]_vars

(***************************************************************************)
(* Claims about the splines.                                               *)
(***************************************************************************)
ChunkOps == {"toCubicScalars", "toBezierSegments", "toHermiteSegments",
             "toCardinalSegments", "toCatmullRomSegments", "toBSplineSegments"}

\* the stride of a chunking call: the argument of toCubicScalars, 3 for
\* Bezier, 2 for Hermite, 1 for Cardinal, Catmull-Rom and B-spline
StrideOf(r) ==
  IF r.op = "toCubicScalars" THEN r.stride
  ELSE IF r.op = "toBezierSegments" THEN 3
  ELSE IF r.op = "toHermiteSegments" THEN 2
  ELSE 1

ValidChunking(len, stride) ==
  len >= 4 /\ stride \in {1, 2, 3} /\ (len - 4) % stride = 0

\* C14: for stride in {1, 2, 3}, len >= 4 and (len - 4) mod stride = 0,
\* toCubicScalars(seq, stride) returns (len - 4) / stride + 1 chunks, chunk k
\* (from 0) being seq[k * stride .. k * stride + 3]; toBezierSegments is the
\* stride 3, toHermiteSegments the stride 2, and toCardinalSegments,
\* toCatmullRomSegments and toBSplineSegments the stride 1.
C14_ChunksAreStridedWindows ==
  (res.op \in ChunkOps /\ ValidChunking(Len(controls), StrideOf(res))) =>
    LET stride == StrideOf(res)
        count == (Len(controls) - 4) \div stride + 1
    IN  /\ "chunks" \in DOMAIN res.out
        /\ Len(res.out.chunks) = count
        /\ \A k \in 0..(count - 1) :
             res.out.chunks[k + 1] =
               <<controls[k * stride + 1], controls[k * stride + 2],
                 controls[k * stride + 3], controls[k * stride + 4]>>

\* toHermiteSegments cut six scalars into two different chunks
C14_Witness ==
  /\ res.op = "toHermiteSegments"
  /\ Len(controls) = 6
  /\ "chunks" \in DOMAIN res.out
  /\ Len(res.out.chunks) = 2
  /\ res.out.chunks[1] # res.out.chunks[2]

\* C15: toCubicScalars fails with InvalidChunking when len < 4, when the
\* stride is not 1, 2 or 3, or when (len - 4) mod stride # 0; so do
\* toBezierSegments and toHermiteSegments on a sequence of length 5.
C15_InvalidChunking ==
  (res.op \in ChunkOps /\ ~ValidChunking(Len(controls), StrideOf(res))) =>
    Failed(res.out, "InvalidChunking")

\* toCubicScalars failed on five scalars and stride 2
C15_Witness ==
  /\ res.op = "toCubicScalars"
  /\ Len(controls) = 5
  /\ res.stride = 2
  /\ Failed(res.out, "InvalidChunking")

\* the Cardinal(a) matrix as the table of characteristic matrices lists it:
\* row k holds the coefficients of t^k
CardinalTable(a) ==
  << <<RInt(0), RInt(1), RInt(0), RInt(0)>>,
     <<RNeg(a), RInt(0), a, RInt(0)>>,
     <<RMul(RInt(2), a), RSub(a, RInt(3)), RSub(RInt(3), RMul(RInt(2), a)), RNeg(a)>>,
     <<RNeg(a), RSub(RInt(2), a), RSub(a, RInt(2)), a>> >>

\* C16 (as stated): cardinal(a) returns the matrix whose rows, in order, are
\* [0, 1, 0, 0], [-a, 0, a, 0], [2a, a - 3, 3 - 2a, -a], [-a, 2 - a, a - 2, a].
C16_Original ==
  res.op = "cardinal" => res.out = CardinalTable(res.a)

\* C16 (amended): cardinal(a) returns those four rows in the opposite order,
\* the row of t^3 first: [-a, 2 - a, a - 2, a], [2a, a - 3, 3 - 2a, -a],
\* [-a, 0, a, 0], [0, 1, 0, 0].
C16_RowsFromHighestPower ==
  res.op = "cardinal" =>
    /\ Len(res.out) = 4
    /\ \A k \in 1..4 : res.out[k] = CardinalTable(res.a)[5 - k]

\* cardinal(0.5) was called: its row 0 is [-0.5, 1.5, -1.5, 0.5] and its
\* row 3 is [0, 1, 0, 0]
C16_Witness ==
  /\ res.op = "cardinal"
  /\ res.a = Rat(1, 2)
  /\ res.out[1] = <<Rat(-1, 2), Rat(3, 2), Rat(-3, 2), Rat(1, 2)>>
  /\ res.out[4] = <<RInt(0), RInt(1), RInt(0), RInt(0)>>

\* C17: the cubic of a Hermite chunk [p0, m0, p1, m1] takes the value p0 at
\* t = 0 and p1 (the third scalar) at t = 1, and has the derivative m0 at
\* t = 0 and m1 (the fourth scalar) at t = 1; with stride 2 consecutive
\* chunks share (p1, m1), so the chain is continuous at every joint.
C17_HermiteInterpolatesEndpoints ==
  (res.op = "createCubicHermiteSpline" /\ "cubics" \in DOMAIN res.out) =>
    \A k \in 1..Len(res.out.cubics) :
      LET c == res.out.cubics[k]
          base == 2 * (k - 1)
      IN  /\ CubicSolve(c, RInt(0)) = RInt(controls[base + 1])
          /\ CubicSolve(c, RInt(1)) = RInt(controls[base + 3])
          /\ solve(CubicDerivative(c), RInt(0)) = RInt(controls[base + 2])
          /\ solve(CubicDerivative(c), RInt(1)) = RInt(controls[base + 4])
          /\ k < Len(res.out.cubics) =>
               CubicSolve(c, RInt(1)) = CubicSolve(res.out.cubics[k + 1], RInt(0))

(***************************************************************************)
(* matrix4x4.internal.ts: the products of a matrix and a vector            *)
(***************************************************************************)
\* vector4 dot(a, b)
dot(a, b) ==
  roundInt(a.v[1] * b.v[1] + a.v[2] * b.v[2] + a.v[3] * b.v[3] + a.v[4] * b.v[4],
           Min2(a.precision, b.precision))

\* vectorProductLeft(m, v)
vectorProductLeft(a, v) ==
  LET rows == toRows(a)
  IN  vector4(dot(rows[1], v), dot(rows[2], v), dot(rows[3], v), dot(rows[4], v),
              Min2(a.precision, v.precision))

\* vectorProductRight(m, v)
vectorProductRight(a, v) ==
  LET columns == toColumns(a)
  IN  vector4(dot(v, columns[1]), dot(v, columns[2]), dot(v, columns[3]),
              dot(v, columns[4]),
              Min2(a.precision, v.precision))

(***************************************************************************)
(* Operands of several precisions.                                         *)
(***************************************************************************)
\* make(k, k + 1, ..., k + 15, precision): sixteen different entries
Ramp(k, precision) ==
  Matrix4x4Impl([i \in 1..4 |-> [j \in 1..4 |-> k + 4 * (i - 1) + (j - 1)]],
                precision)

\* the matrices a caller builds with an explicit precision
PrecisionMatrices ==
  {Matrix4x4Impl(Identity.e, precision) : precision \in Precisions}
    \cup {Ramp(k, precision) : k \in Entries, precision \in Precisions}

\* the vectors a caller builds with an explicit precision
PrecisionVectors ==
  {vector4(a, b, c, d, precision) : a \in Entries, b \in Entries, c \in Entries,
                                    d \in Entries, precision \in Precisions}

(***************************************************************************)
(* Calls that combine a matrix and a vector.                               *)
(***************************************************************************)
InitMatrixPrecision ==
  /\ m \in PrecisionMatrices
  /\ p = NoPolynomial
  /\ curve = NoCurve
  /\ controls = NoControls
  /\ res = NoResult

VectorProductLeft ==
  /\ res = NoResult
  /\ \E v \in PrecisionVectors :
       res' = [op |-> "vectorProductLeft", v |-> v, out |-> vectorProductLeft(m, v)]
  /\ UNCHANGED <<m, p, curve, controls>>

VectorProductRight ==
  /\ res = NoResult
  /\ \E v \in PrecisionVectors :
       res' = [op |-> "vectorProductRight", v |-> v, out |-> vectorProductRight(m, v)]
  /\ UNCHANGED <<m, p, curve, controls>>

SetRow ==
  /\ res = NoResult
  /\ \E row \in Coordinate, v \in PrecisionVectors :
       res' = [op |-> "setRow", row |-> row, v |-> v, out |-> setRow(m, row, v)]
  /\ UNCHANGED <<m, p, curve, controls>>

SetColumn ==
  /\ res = NoResult
  /\ \E column \in Coordinate, v \in PrecisionVectors :
       res' = [op |-> "setColumn", column |-> column, v |-> v,
               out |-> setColumn(m, column, v)]
  /\ UNCHANGED <<m, p, curve, controls>>

SolveSystemAtPrecision ==
  /\ res = NoResult
  /\ \E v \in PrecisionVectors :
       res' = [op |-> "solveSystem", v |-> v, out |-> solveSystem(m, v)]
  /\ UNCHANGED <<m, p, curve, controls>>

NextMatrixPrecision ==
  \/ VectorProductLeft
  \/ VectorProductRight
  \/ SetRow
  \/ SetColumn
  \/ SolveSystemAtPrecision
  \/ Determinant

SpecMatrixPrecision == InitMatrixPrecision /\ [][NextMatrixPrecision]_vars

(***************************************************************************)
(* Claims about the failure and the precision of the matrix operations.    *)
(***************************************************************************)
\* C18: solveSystem(M, v) fails with SingularMatrix, returning no vector,
\* when the determinant of M is 0, and returns a vector of four finite
\* components whenever the determinant of M is non-zero.
C18_SingularIffZeroDeterminant ==
  res.op = "solveSystem" =>
    IF CofactorExpansion(m) = 0
      THEN Failed(res.out, "SingularMatrix")
      ELSE /\ "v" \in DOMAIN res.out
           /\ Len(res.out.v) = 4
           /\ \A i \in 1..4 : IsFinite(res.out.v[i])

\* C19: vectorProductLeft, vectorProductRight, setRow, setColumn and
\* solveSystem return a value whose precision is min(m.precision,
\* v.precision), and determinant(m) is rounded to m.precision; none falls
\* back to the default precision when an input has a lower one.
C19_PrecisionIsMinimum ==
  /\ res.op \in {"vectorProductLeft", "vectorProductRight", "setRow", "setColumn"} =>
       res.out.precision = Min2(m.precision, res.v.precision)
  /\ (res.op = "solveSystem" /\ "v" \in DOMAIN res.out) =>
       res.out.precision = Min2(m.precision, res.v.precision)
  /\ res.op = "determinant" => res.out = roundInt(res.out, m.precision)

\* C19 without solveSystem: the four other operations return the minimum of
\* the two precisions
C19_PrecisionIsMinimumButSolveSystem ==
  res.op \in {"vectorProductLeft", "vectorProductRight", "setRow", "setColumn"} =>
    res.out.precision = Min2(m.precision, res.v.precision)

(***************************************************************************)
(* Claims about the soundness of quadratic.monotonicity.                   *)
(***************************************************************************)
\* the points at which an interval is sampled: the quarters between
\* -MaxArg and MaxArg
Samples == {Rat(k, 4) : k \in (-4 * MaxArg)..(4 * MaxArg)}

\* the pairs a < b of sample points inside the interval i
SamplePairs(i) ==
  {ab \in Samples \X Samples :
     /\ RLt(ab[1], ab[2])
     /\ contains(i, ab[1], TRUE, TRUE)
     /\ contains(i, ab[2], TRUE, TRUE)}

\* the classification is sound on the sample points of the interval
SoundOn(q, i, out) ==
  /\ out = "increasing" =>
       \A ab \in SamplePairs(i) : RLe(solve(q, ab[1]), solve(q, ab[2]))
  /\ out = "decreasing" =>
       \A ab \in SamplePairs(i) : RLe(solve(q, ab[2]), solve(q, ab[1]))
  /\ out = "constant" =>
       \A ab \in SamplePairs(i) : solve(q, ab[1]) = solve(q, ab[2])

\* C20: for every quadratic p and interval i of non-zero size, if
\* monotonicity(p, i) is 'increasing' then solve(p, a) <= solve(p, b) for all
\* a < b in i, if it is 'decreasing' then solve(p, a) >= solve(p, b) for all
\* a < b in i, and it is 'constant' only if p takes the same value at every
\* point of i.
C20_MonotonicitySound ==
  (res.op = "monotonicity" /\ res.i # Null /\ ~RIsZero(size(res.i))) =>
    SoundOn(p, res.i, res.out)

\* C20 for the polynomials of the default precision, whose extreme is not
\* moved by rounding
C20_MonotonicitySoundAtDefaultPrecision ==
  (res.op = "monotonicity" /\ res.i # Null /\ ~RIsZero(size(res.i))
     /\ p.precision = PRECISION) =>
    SoundOn(p, res.i, res.out)

(***************************************************************************)
(* Claims about the enclosure by quadratic.range.                          *)
(***************************************************************************)
\* the points of the interval d at which q is looked at: the sample points,
\* the two endpoints and, for c2 # 0, the vertex -c1 / (2 * c2) itself and
\* the vertex rounded to the precision of q
PointsOf(q, d) ==
  {x \in Samples \cup {d.start, d.end}
           \cup (IF RIsZero(q.c2)
                   THEN {}
                   ELSE {RDiv(RNeg(q.c1), RMul(RInt(2), q.c2)), Vertex(q)}) :
     contains(d, x, TRUE, TRUE)}

\* the interval r encloses q on d, and both its bounds are values of q on d
Encloses(r, q, d) ==
  /\ \A x \in PointsOf(q, d) : JsLe(r.start, solve(q, x)) /\ JsLe(solve(q, x), r.end)
  /\ \E x \in PointsOf(q, d) : solve(q, x) = r.start
  /\ \E x \in PointsOf(q, d) : solve(q, x) = r.end

\* C21: for every quadratic p, every interval d and every x with
\* d.start <= x <= d.end, range(p, d).start <= solve(p, x) <= range(p, d).end,
\* and both bounds of range(p, d) are values p attains on d.
C21_RangeEncloses ==
  res.op = "range" => Encloses(res.out, p, res.domain)

\* C21 for the polynomials of the default precision, whose extreme is not
\* moved by rounding
C21_RangeEnclosesAtDefaultPrecision ==
  (res.op = "range" /\ p.precision = PRECISION) =>
    Encloses(res.out, p, res.domain)

(***************************************************************************)
(* matrix4x4.internal.ts over fractional entries: the operations that move *)
(* entries between matrices and vectors, with entries that are rationals   *)
(* and are rounded by every constructor.                                   *)
(***************************************************************************)
\* new Matrix4x4Impl(m00, ..., m33, precision) on rational entries
Matrix4x4ImplQ(rows, precision) ==
  [e |-> [i \in 1..4 |-> [j \in 1..4 |-> round(rows[i][j], precision)]],
   precision |-> precision]

\* fromRows(v0, v1, v2, v3) without an explicit precision
fromRowsQ(vs) ==
  Matrix4x4ImplQ(
    << <<vs[1].v[1], vs[1].v[2], vs[1].v[3], vs[1].v[4]>>,
       <<vs[2].v[1], vs[2].v[2], vs[2].v[3], vs[2].v[4]>>,
       <<vs[3].v[1], vs[3].v[2], vs[3].v[3], vs[3].v[4]>>,
       <<vs[4].v[1], vs[4].v[2], vs[4].v[3], vs[4].v[4]>> >>,
    Min2(Min2(vs[1].precision, vs[2].precision),
         Min2(vs[3].precision, vs[4].precision)))

\* fromColumns(v0, v1, v2, v3) without an explicit precision
fromColumnsQ(vs) ==
  Matrix4x4ImplQ(
    << <<vs[1].v[1], vs[2].v[1], vs[3].v[1], vs[4].v[1]>>,
       <<vs[1].v[2], vs[2].v[2], vs[3].v[2], vs[4].v[2]>>,
       <<vs[1].v[3], vs[2].v[3], vs[3].v[3], vs[4].v[3]>>,
       <<vs[1].v[4], vs[2].v[4], vs[3].v[4], vs[4].v[4]>> >>,
    Min2(Min2(vs[1].precision, vs[2].precision),
         Min2(vs[3].precision, vs[4].precision)))

toRowsQ(a) ==
  << vector4Q(At(a, 0, 0), At(a, 0, 1), At(a, 0, 2), At(a, 0, 3), a.precision),
     vector4Q(At(a, 1, 0), At(a, 1, 1), At(a, 1, 2), At(a, 1, 3), a.precision),
     vector4Q(At(a, 2, 0), At(a, 2, 1), At(a, 2, 2), At(a, 2, 3), a.precision),
     vector4Q(At(a, 3, 0), At(a, 3, 1), At(a, 3, 2), At(a, 3, 3), a.precision) >>

toColumnsQ(a) ==
  << vector4Q(At(a, 0, 0), At(a, 1, 0), At(a, 2, 0), At(a, 3, 0), a.precision),
     vector4Q(At(a, 0, 1), At(a, 1, 1), At(a, 2, 1), At(a, 3, 1), a.precision),
     vector4Q(At(a, 0, 2), At(a, 1, 2), At(a, 2, 2), At(a, 3, 2), a.precision),
     vector4Q(At(a, 0, 3), At(a, 1, 3), At(a, 2, 3), At(a, 3, 3), a.precision) >>

\* setRow that replaces the column of the same index
setRowQOfColumns(a, row, v) == fromColumnsQ(ArrayWith(toColumnsQ(a), row, v))

setRowQ(a, row, v) == fromRowsQ(ArrayWith(toRowsQ(a), row, v))

setColumnQ(a, column, v) == fromColumnsQ(ArrayWith(toColumnsQ(a), column, v))

(***************************************************************************)
(* Operands with fractional entries.                                       *)
(***************************************************************************)
\* the halves from 0 to MaxEntry
Halves == {Rat(k, 2) : k \in 0..(2 * MaxEntry)}

\* make(k / 2, (k + 1) / 2, ..., (k + 15) / 2, precision): sixteen different
\* entries before rounding
RampQ(k, precision) ==
  Matrix4x4ImplQ([i \in 1..4 |-> [j \in 1..4 |-> Rat(k + 4 * (i - 1) + (j - 1), 2)]],
                 precision)

FractionalMatrices == {RampQ(k, precision) : k \in Entries, precision \in Precisions}

FractionalVectors ==
  {vector4Q(a, b, c, d, precision) : a \in Halves, b \in Halves, c \in Halves,
                                     d \in Halves, precision \in Precisions}

(***************************************************************************)
(* Calls that move entries.                                                *)
(***************************************************************************)
InitMatrixFrame ==
  /\ m \in FractionalMatrices
  /\ p = NoPolynomial
  /\ curve = NoCurve
  /\ controls = NoControls
  /\ res = NoResult

SetRowFractional ==
  /\ res = NoResult
  /\ \E row \in Coordinate, v \in FractionalVectors :
       res' = [op |-> "setRow", row |-> row, v |-> v, out |-> setRowQ(m, row, v)]
  /\ UNCHANGED <<m, p, curve, controls>>

SetColumnFractional ==
  /\ res = NoResult
  /\ \E column \in Coordinate, v \in FractionalVectors :
       res' = [op |-> "setColumn", column |-> column, v |-> v,
               out |-> setColumnQ(m, column, v)]
  /\ UNCHANGED <<m, p, curve, controls>>

FromRowsOfRows ==
  /\ res = NoResult
  /\ res' = [op |-> "fromRows(toRows)", out |-> fromRowsQ(toRowsQ(m))]
  /\ UNCHANGED <<m, p, curve, controls>>

FromColumnsOfColumns ==
  /\ res = NoResult
  /\ res' = [op |-> "fromColumns(toColumns)", out |-> fromColumnsQ(toColumnsQ(m))]
  /\ UNCHANGED <<m, p, curve, controls>>

FromRowsOfColumns ==
  /\ res = NoResult
  /\ res' = [op |-> "fromRows(toColumns)", out |-> fromRowsQ(toColumnsQ(m))]
  /\ UNCHANGED <<m, p, curve, controls>>

NextMatrixFrame ==
  \/ SetRowFractional
  \/ SetColumnFractional
  \/ FromRowsOfRows
  \/ FromColumnsOfColumns
  \/ FromRowsOfColumns

SpecMatrixFrame == InitMatrixFrame /\ [][NextMatrixFrame]_vars

(***************************************************************************)
(* Claims about the frame of setRow and setColumn and the round trips.     *)
(***************************************************************************)
\* row r and column c of a matrix, as sequences of entries
RowOf(a, r) == a.e[r + 1]

ColumnOf(a, c) == [i \in 1..4 |-> a.e[i][c + 1]]

\* the entries of the transpose
TransposedEntries(a) == [i \in 1..4 |-> [j \in 1..4 |-> a.e[j][i]]]

\* the three round trips rebuild m, or its transpose, entry for entry
RoundTrips(before, r) ==
  /\ r.op = "fromRows(toRows)" => r.out = before
  /\ r.op = "fromColumns(toColumns)" => r.out = before
  /\ r.op = "fromRows(toColumns)" =>
       /\ r.out.e = TransposedEntries(before)
       /\ r.out.precision = before.precision

\* C22 (as stated): setRow(m, r, v) returns a matrix whose row r equals v and
\* whose other three rows equal those of m, leaving m unchanged; setColumn
\* does the same for a column; fromRows(toRows(m)) = m and
\* fromColumns(toColumns(m)) = m entry for entry, and fromRows(toColumns(m))
\* is the transpose of m.
C22_Original ==
  [][/\ m' = m
     /\ res'.op = "setRow" =>
          \A r \in Coordinate :
            RowOf(res'.out, r) = IF r = res'.row THEN res'.v.v ELSE RowOf(m, r)
     /\ res'.op = "setColumn" =>
          \A c \in Coordinate :
            ColumnOf(res'.out, c) =
              IF c = res'.column THEN res'.v.v ELSE ColumnOf(m, c)
     /\ RoundTrips(m, res')]_vars

\* C22 (amended): setRow(m, r, v) returns a matrix of precision
\* min(m.precision, v.precision) whose row r is v and whose other rows are
\* those of m, every entry rounded to that precision, leaving m unchanged;
\* setColumn does the same for a column; the round trips are as stated.
C22_FrameUpToRounding ==
  [][/\ m' = m
     /\ res'.op = "setRow" =>
          LET precision == Min2(m.precision, res'.v.precision)
          IN  /\ res'.out.precision = precision
              /\ \A r \in Coordinate : \A c \in Coordinate :
                   At(res'.out, r, c) =
                     round(IF r = res'.row THEN res'.v.v[c + 1] ELSE At(m, r, c),
                           precision)
     /\ res'.op = "setColumn" =>
          LET precision == Min2(m.precision, res'.v.precision)
          IN  /\ res'.out.precision = precision
              /\ \A r \in Coordinate : \A c \in Coordinate :
                   At(res'.out, r, c) =
                     round(IF c = res'.column THEN res'.v.v[r + 1] ELSE At(m, r, c),
                           precision)
     /\ RoundTrips(m, res')]_vars

\* setRow put a vector of the low precision into a matrix of the default
\* precision: a row that was not set differs from the row of m
C22_Witness ==
  /\ res.op = "setRow"
  /\ m.precision = PRECISION
  /\ res.v.precision = LowPrecision
  /\ \E r \in Coordinate : r # res.row /\ RowOf(res.out, r) # RowOf(m, r)

====
